---- MODULE Spec2Model ----
(***************************************************************************)
(* Gesture-driven particle field: ParticleSystem (target generation,       *)
(* smoothed expansion / rotation, per-frame position update), HandTracker  *)
(* (detection loop, openness of a landmark set) and the host wiring of     *)
(* main.js (gesture callback, start button, pattern buttons).              *)
(*                                                                         *)
(* JavaScript numbers are modelled as exact rationals extended with NaN,   *)
(* +Infinity, -Infinity and the value undefined.  Rounding of IEEE doubles *)
(* and of the Float32Array position buffer is not modelled; negative zero  *)
(* is not distinguished from zero.  Angles are held as multiples of        *)
(* Math.PI.  Every handler of the single-threaded event loop runs to       *)
(* completion and is one action.                                           *)
(***************************************************************************)
EXTENDS Integers, Sequences, FiniteSets, TLC

(***************************************************************************)
(* Bounds of the model.                                                    *)
(***************************************************************************)
\* number of particles of the modelled field (15000 in the program)
particleCount == 2
\* number of animate frames explored after construction
MaxSteps == 3
\* number of control calls (setters, gestures) explored after construction
MaxCalls == 2
\* number of calls of start (of getUserMedia) that may await the camera at once
MaxStarts == 2

(***************************************************************************)
(* JavaScript numbers.                                                     *)
(***************************************************************************)
Abs(i) == IF i < 0 THEN -i ELSE i

RECURSIVE GCD(_, _)
GCD(a, b) == IF b = 0 THEN a ELSE GCD(b, a % b)

\* the rational n/d (d # 0) in lowest terms with a positive denominator
Num(n, d) ==
    LET g == GCD(Abs(n), Abs(d))
        s == IF d < 0 THEN -1 ELSE 1
    IN  [k |-> "num", n |-> s * (n \div g), d |-> s * (d \div g)]

Whole(i) == [k |-> "num", n |-> i, d |-> 1]
NaN == [k |-> "nan", n |-> 0, d |-> 1]
PosInf == [k |-> "inf", n |-> 1, d |-> 1]
NegInf == [k |-> "inf", n |-> -1, d |-> 1]
Undefined == [k |-> "undefined", n |-> 0, d |-> 1]

\* ToNumber: undefined converts to NaN in arithmetic
ToNumber(a) == IF a.k = "undefined" THEN NaN ELSE a
IsNaN(a) == ToNumber(a).k = "nan"
IsFinite(a) == a.k = "num"
Sign(a) == IF a.n > 0 THEN 1 ELSE IF a.n < 0 THEN -1 ELSE 0
Inf(s) == IF s < 0 THEN NegInf ELSE PosInf

Neg(a) ==
    LET x == ToNumber(a)
    IN  IF x.k = "nan" THEN NaN ELSE [x EXCEPT !.n = -x.n]

Add(a, b) ==
    LET x == ToNumber(a)
        y == ToNumber(b)
    IN  IF x.k = "nan" \/ y.k = "nan" THEN NaN
        ELSE IF x.k = "inf" /\ y.k = "inf" THEN (IF x.n = y.n THEN x ELSE NaN)
        ELSE IF x.k = "inf" THEN x
        ELSE IF y.k = "inf" THEN y
        ELSE LET g == GCD(x.d, y.d)
             IN  Num(x.n * (y.d \div g) + y.n * (x.d \div g), x.d * (y.d \div g))

Sub(a, b) == Add(a, Neg(b))

Mul(a, b) ==
    LET x == ToNumber(a)
        y == ToNumber(b)
    IN  IF x.k = "nan" \/ y.k = "nan" THEN NaN
        ELSE IF x.k = "inf" \/ y.k = "inf"
             THEN (IF Sign(x) * Sign(y) = 0 THEN NaN ELSE Inf(Sign(x) * Sign(y)))
        ELSE LET g1 == GCD(Abs(x.n), y.d)
                 g2 == GCD(Abs(y.n), x.d)
             IN  Num((x.n \div g1) * (y.n \div g2), (x.d \div g2) * (y.d \div g1))

Div(a, b) ==
    LET x == ToNumber(a)
        y == ToNumber(b)
    IN  IF x.k = "nan" \/ y.k = "nan" THEN NaN
        ELSE IF x.k = "inf" THEN (IF y.k = "inf" THEN NaN
                                   ELSE Inf(x.n * (IF y.n < 0 THEN -1 ELSE 1)))
        ELSE IF y.k = "inf" THEN Whole(0)
        ELSE IF y.n = 0 THEN (IF x.n = 0 THEN NaN ELSE Inf(Sign(x)))
        ELSE Mul(x, Num(y.d, y.n))

\* a < b and a <= b of JavaScript: false when either side is NaN
Less(a, b) ==
    LET x == ToNumber(a)
        y == ToNumber(b)
    IN  /\ x.k # "nan"
        /\ y.k # "nan"
        /\ x # y
        /\ IF x.k = "inf" THEN x.n < 0
           ELSE IF y.k = "inf" THEN y.n > 0
           ELSE Sign(Sub(x, y)) < 0

LessEq(a, b) == (~IsNaN(a) /\ ToNumber(a) = ToNumber(b)) \/ Less(a, b)

MathMin(a, b) ==
    IF IsNaN(a) \/ IsNaN(b) THEN NaN
    ELSE IF Less(ToNumber(b), ToNumber(a)) THEN ToNumber(b) ELSE ToNumber(a)

MathMax(a, b) ==
    IF IsNaN(a) \/ IsNaN(b) THEN NaN
    ELSE IF Less(ToNumber(a), ToNumber(b)) THEN ToNumber(b) ELSE ToNumber(a)

\* the integer square root of i >= 0: the least r >= from with (r + 1)^2 > i
RECURSIVE IsqrtFrom(_, _)
IsqrtFrom(i, from) ==
    IF (from + 1) * (from + 1) > i THEN from ELSE IsqrtFrom(i, from + 1)
Isqrt(i) == IsqrtFrom(i, 0)
IsSquare(i) == i >= 0 /\ Isqrt(i) * Isqrt(i) = i

\* Math.sqrt; exact on the rationals n/d with n and d perfect squares, the
\* only ones the landmark inputs of the model produce (ExactDistance)
MathSqrt(a) ==
    LET x == ToNumber(a)
    IN  IF x.k = "nan" THEN NaN
        ELSE IF x.k = "inf" THEN (IF x.n > 0 THEN PosInf ELSE NaN)
        ELSE IF x.n < 0 THEN NaN
        ELSE Num(Isqrt(x.n), Isqrt(x.d))

\* Math.pow(a, 2)
Square(a) == Mul(a, a)


Half == Num(1, 2)
Tenth == Num(1, 10)

\* cos and sin of q * Math.PI, q a multiple of 1/2 (the angles the sampled
\* draws produce); acos of -1, 0, 1 as a multiple of Math.PI
QuarterTurns(q) == (Mul(q, Whole(2)).n) % 4
CosPi(q) == CASE QuarterTurns(q) = 0 -> Whole(1)
              [] QuarterTurns(q) = 1 -> Whole(0)
              [] QuarterTurns(q) = 2 -> Whole(-1)
              [] QuarterTurns(q) = 3 -> Whole(0)
SinPi(q) == CASE QuarterTurns(q) = 0 -> Whole(0)
              [] QuarterTurns(q) = 1 -> Whole(1)
              [] QuarterTurns(q) = 2 -> Whole(0)
              [] QuarterTurns(q) = 3 -> Whole(-1)
AcosPi(c) == CASE c = Whole(1) -> Whole(0)
               [] c = Whole(0) -> Half
               [] c = Whole(-1) -> Whole(1)

(***************************************************************************)
(* Math.random: a pseudo-random stream of values in [0, 1).  A generation  *)
(* starts at a nondeterministically chosen position of the stream (seed)   *)
(* and takes its draws in the order of the code.  The sampled values are 0 *)
(* and 1/2, where the trigonometry of the patterns is exact.               *)
(***************************************************************************)
SampleHalves == <<0, 1, 1, 0, 1, 0, 0>>
\* the positions of the stream a generation may start at
Seeds == {0, 1}
MathRandom(seed, j) == Num(SampleHalves[((seed + j) % Len(SampleHalves)) + 1], 2)

(***************************************************************************)
(* State.                                                                  *)
(***************************************************************************)
VARIABLES
    particleSystem,     \* the ParticleSystem object of the page: its fields
                        \* originalPositions, currentPattern, baseColor,
                        \* expansion, targetExpansion, targetRotationY,
                        \* rotationY (particles.rotation.y), positions (the
                        \* position array, 3 entries per particle), particles
                        \* (this.particles is set) and animateRequested (a
                        \* requestAnimationFrame callback of animate is pending)
    handTracker,        \* the HandTracker object: isReady and loops, one entry
                        \* per chain of detectLoop calls begun, its place:
                        \* "scheduled" (requestAnimationFrame pending),
                        \* "sending" (awaiting hands.send) or "off" (ended)
    startBtn,           \* the start button: disabled, style.display and
                        \* style.backgroundColor
    pending             \* number of click handlers that await the camera

\* History of the run, read by the properties only.
VARIABLES
    steps,              \* number of animate frames run since construction
    calls,              \* number of control calls made since construction
    lastOp,             \* the handler that ran last, its arguments and outcome
    genPattern,         \* the pattern name of the latest generation of targets
    genSeed,            \* the stream position the latest generation started at
    expansionAtSet,     \* expansion when targetExpansion was last assigned
    stepsSinceSet,      \* animate frames run since targetExpansion was last assigned
    frameFailed         \* some detection frame so far ended in an exception

historyVars == <<steps, calls, lastOp, genPattern, genSeed, expansionAtSet,
                 stepsSinceSet, frameFailed>>
vars == <<particleSystem, handTracker, startBtn, pending, historyVars>>

PatternNames == {"sphere", "cube", "heart"}
\* a data-pattern value that names no generator
OtherNames == {"torus"}
Colors == {"#00ffff", "#ff00ff"}

(***************************************************************************)
(* ParticleSystem.  Every method is an operator from the object before the *)
(* call to the object after it.                                            *)
(***************************************************************************)

\* one iteration of the loop of generateTargetPositions: the target of
\* particle i (from 0), the draws of the generation starting at seed
targetOf(pattern, seed, i) ==
    IF pattern = "sphere" THEN
        LET theta == Mul(MathRandom(seed, 2 * i), Whole(2))
            phi == AcosPi(Sub(Mul(MathRandom(seed, 2 * i + 1), Whole(2)), Whole(1)))
            r == Whole(10)
        IN  [x |-> Mul(Mul(r, SinPi(phi)), CosPi(theta)),
             y |-> Mul(Mul(r, SinPi(phi)), SinPi(theta)),
             z |-> Mul(r, CosPi(phi))]
    ELSE IF pattern = "cube" THEN
        LET side == Whole(12)
        IN  [x |-> Mul(Sub(MathRandom(seed, 3 * i), Half), side),
             y |-> Mul(Sub(MathRandom(seed, 3 * i + 1), Half), side),
             z |-> Mul(Sub(MathRandom(seed, 3 * i + 2), Half), side)]
    ELSE IF pattern = "heart" THEN
        LET t == Mul(MathRandom(seed, 2 * i), Whole(2))
            scale == Half
            s == SinPi(t)
        IN  [x |-> Mul(Mul(scale, Whole(16)), Mul(Mul(s, s), s)),
             y |-> Mul(scale,
                       Sub(Sub(Sub(Mul(Whole(13), CosPi(t)),
                                   Mul(Whole(5), CosPi(Mul(Whole(2), t)))),
                               Mul(Whole(2), CosPi(Mul(Whole(3), t)))),
                           CosPi(Mul(Whole(4), t)))),
             z |-> Mul(Sub(MathRandom(seed, 2 * i + 1), Half), Whole(5))]
    ELSE [x |-> Undefined, y |-> Undefined, z |-> Undefined]

\* a generation that leaves the entries of the second half of the particles
\* as they were
generateTargetPositionsPartial(ps, pattern, seed) ==
    [ps EXCEPT !.originalPositions =
        [i \in 1..ps.particleCount |->
            IF 2 * i > ps.particleCount /\ i <= Len(ps.originalPositions)
            THEN ps.originalPositions[i]
            ELSE targetOf(pattern, seed, i - 1)]]

\* a generation that pushes its entries behind those the array holds
generateTargetPositionsAppend(ps, pattern, seed) ==
    [ps EXCEPT !.originalPositions =
        ps.originalPositions \o
            [i \in 1..ps.particleCount |-> targetOf(pattern, seed, i - 1)]]

\* generateTargetPositions: the array is emptied and refilled with one entry
\* per particle
generateTargetPositions(ps, pattern, seed) ==
    [ps EXCEPT !.originalPositions =
        [i \in 1..ps.particleCount |-> targetOf(pattern, seed, i - 1)]]

\* createParticles: the position buffer, (Math.random() - 0.5) * 100 per
\* coordinate, then the targets of the current pattern from the draws that follow
createParticles(ps, seed) ==
    generateTargetPositions(
        [ps EXCEPT !.positions =
                       [j \in 1..(3 * ps.particleCount) |->
                           Mul(Sub(MathRandom(seed, j - 1), Half), Whole(100))],
                   !.particles = TRUE],
        ps.currentPattern, seed + 3 * ps.particleCount)

setPattern(ps, patternName, seed) ==
    generateTargetPositions([ps EXCEPT !.currentPattern = patternName],
                            patternName, seed)

\* a color change that builds the particles anew
setColorRebuild(ps, hexColor) ==
    [ps EXCEPT !.baseColor = hexColor,
               !.positions = [j \in 1..Len(ps.positions) |->
                                 Mul(Sub(MathRandom(0, j - 1), Half), Whole(100))]]

\* setColor: the base color and the color of the material; the two hold the
\* same value from createParticles on and are one field here
setColor(ps, hexColor) == [ps EXCEPT !.baseColor = hexColor]

\* an assignment that also moves the current expansion
setExpansionJump(ps, factor) ==
    [ps EXCEPT !.targetExpansion = factor, !.expansion = factor]

setExpansion(ps, factor) == [ps EXCEPT !.targetExpansion = factor]

\* an assignment that wraps the angle into [-Math.PI, Math.PI)
setRotationWrapped(ps, angle) ==
    [ps EXCEPT !.targetRotationY =
        IF Less(angle, Whole(-1)) THEN Add(angle, Whole(2))
        ELSE IF LessEq(Whole(1), angle) THEN Sub(angle, Whole(2))
        ELSE angle]

setRotation(ps, angle) == [ps EXCEPT !.targetRotationY = angle]

\* a smoothing that closes a fifth of the gap
smoothExpansionFifth(e, target) ==
    IF target # Undefined THEN Add(e, Mul(Sub(target, e), Num(1, 5))) ELSE e

\* animate, lines 165-167: the smoothing of the expansion
smoothExpansion(e, target) ==
    IF target # Undefined THEN Add(e, Mul(Sub(target, e), Tenth)) ELSE e

\* animate, lines 174-177: the smoothing of the rotation
smoothRotation(r, target) ==
    IF target # Undefined THEN Add(r, Mul(Sub(target, r), Tenth)) ELSE r

\* animate, lines 187-202: one coordinate moves 10% of the way to
\* coordinate * expansion
moveToward(current, coordinate, e) ==
    LET speed == Tenth
    IN  Add(current, Mul(Sub(Mul(coordinate, e), current), speed))

\* the entry of originalPositions the loop of animate reads for particle i
\* (from 1); Undefined when there is none
targetRead(ps, i) ==
    IF i > Len(ps.originalPositions) THEN Undefined ELSE ps.originalPositions[i]

\* a loop that turns the x coordinate of every target by the rotation target
updatePositionsTurned(ps, e) ==
    [j \in 1..Len(ps.positions) |->
        LET i == ((j - 1) \div 3) + 1
            axis == (j - 1) % 3
            target == targetRead(ps, i)
        IN  IF i > ps.particleCount \/ target = Undefined THEN ps.positions[j]
            ELSE moveToward(ps.positions[j],
                            CASE axis = 0 -> Add(target.x, ps.targetRotationY)
                              [] axis = 1 -> target.y
                              [] axis = 2 -> target.z,
                            e)]

\* animate, lines 180-203: the loop over the particles, with the expansion e
updatePositions(ps, e) ==
    [j \in 1..Len(ps.positions) |->
        LET i == ((j - 1) \div 3) + 1
            axis == (j - 1) % 3
            target == targetRead(ps, i)
        IN  IF i > ps.particleCount \/ target = Undefined THEN ps.positions[j]
            ELSE moveToward(ps.positions[j],
                            CASE axis = 0 -> target.x
                              [] axis = 1 -> target.y
                              [] axis = 2 -> target.z,
                            e)]

\* a frame that moves the particles with the expansion it found and smooths
\* the expansion afterwards
animateStaleExpansion(ps) ==
    LET requested == [ps EXCEPT !.animateRequested = TRUE]
        e == smoothExpansion(ps.expansion, ps.targetExpansion)
    IN  IF ~ps.particles THEN requested
        ELSE [requested EXCEPT
                 !.expansion = e,
                 !.rotationY = smoothRotation(ps.rotationY, ps.targetRotationY),
                 !.positions = updatePositions(ps, ps.expansion)]

\* animate: the next frame is requested first; without particles nothing else
\* happens
animate(ps) ==
    LET requested == [ps EXCEPT !.animateRequested = TRUE]
        e == smoothExpansion(ps.expansion, ps.targetExpansion)
    IN  IF ~ps.particles THEN requested
        ELSE [requested EXCEPT
                 !.expansion = e,
                 !.rotationY = smoothRotation(ps.rotationY, ps.targetRotationY),
                 !.positions = updatePositions(ps, e)]

\* a frame that requests the next one as its last statement, which a raise
\* of the renderer does not reach
animateRaisedRequestLast(ps) ==
    [animate(ps) EXCEPT !.animateRequested = ps.animateRequested]

\* animate when renderer.render (line 207) raises: every statement before it
\* has run, the request of the next frame (line 159) among them
animateRaised(ps) == animate(ps)

\* the display runs a requested callback: the request is consumed
fired(ps) == [ps EXCEPT !.animateRequested = FALSE]

\* the constructor up to the call of init
constructed ==
    [particleCount |-> particleCount,
     originalPositions |-> <<>>,
     currentPattern |-> "sphere",
     baseColor |-> "#00ffff",
     expansion |-> Whole(1),
     targetExpansion |-> Whole(1),
     targetRotationY |-> Whole(0),
     rotationY |-> Whole(0),
     positions |-> <<>>,
     particles |-> FALSE,
     animateRequested |-> FALSE]

\* a constructor that leaves the first frame to the caller
initWithoutAnimate(ps, seed) == createParticles(ps, seed)

\* init: the particles are created and the first frame runs at once
init(ps, seed) == animate(createParticles(ps, seed))

(***************************************************************************)
(* HandTracker                                                             *)
(***************************************************************************)

\* landmarks[index] of a landmark array (a sequence; index from 0)
Missing(landmarks, index) == index + 1 > Len(landmarks)
At(landmarks, index) == landmarks[index + 1]

\* lines 152-156 and 164-168: the Euclidean distance of two landmarks
distance(p, q) ==
    MathSqrt(Add(Add(Square(Sub(p.x, q.x)), Square(Sub(p.y, q.y))),
                 Square(Sub(p.z, q.z))))

tips == <<4, 8, 12, 16, 20>>

\* lines 160-170: totalTipDist after the first m fingertips
RECURSIVE totalTipDist(_, _)
totalTipDist(landmarks, m) ==
    IF m = 0 THEN Whole(0)
    ELSE Add(totalTipDist(landmarks, m - 1),
             distance(At(landmarks, tips[m]), At(landmarks, 0)))

\* a normalisation without the clamp
normalizeUnclamped(currentRatio) ==
    Div(Sub(currentRatio, Num(8, 10)), Sub(Num(22, 10), Num(8, 10)))

\* lines 185-186: the normalisation of the ratio and the clamp
normalize(currentRatio) ==
    LET minRatio == Num(8, 10)
        maxRatio == Num(22, 10)
        normalized == Div(Sub(currentRatio, minRatio), Sub(maxRatio, minRatio))
    IN  MathMax(Whole(0), MathMin(Whole(1), normalized))

\* calculateHandOpenness: the value returned, or the TypeError of reading a
\* coordinate of a landmark the array does not hold
calculateHandOpenness(landmarks) ==
    IF \/ Missing(landmarks, 9)
       \/ Missing(landmarks, 0)
       \/ \E m \in 1..Len(tips) : Missing(landmarks, tips[m])
    THEN [threw |-> TRUE, value |-> Undefined]
    ELSE LET palmSize == distance(At(landmarks, 9), At(landmarks, 0))
             avgTipDist == Div(totalTipDist(landmarks, Len(tips)), Whole(5))
             currentRatio == Div(avgTipDist, palmSize)
         IN  [threw |-> FALSE, value |-> normalize(currentRatio)]

\* a handler that reports a closed hand when the openness cannot be computed
onResultsDefaultOnError(results) ==
    IF results.present /\ Len(results.multiHandLandmarks) > 0
    THEN LET landmarks == results.multiHandLandmarks[1]
             openness == calculateHandOpenness(landmarks)
         IN  IF openness.threw
             THEN [threw |-> FALSE, called |-> TRUE,
                   openness |-> Whole(0), handX |-> Undefined]
             ELSE [threw |-> FALSE, called |-> TRUE,
                   openness |-> openness.value, handX |-> At(landmarks, 9).x]
    ELSE [threw |-> FALSE, called |-> FALSE,
          openness |-> Undefined, handX |-> Undefined]

\* a handler that reports a closed hand when no hand is detected
onResultsResetOnNoHand(results) ==
    IF results.present /\ Len(results.multiHandLandmarks) > 0
    THEN LET landmarks == results.multiHandLandmarks[1]
             openness == calculateHandOpenness(landmarks)
         IN  IF openness.threw
             THEN [threw |-> TRUE, called |-> FALSE,
                   openness |-> Undefined, handX |-> Undefined]
             ELSE [threw |-> FALSE, called |-> TRUE,
                   openness |-> openness.value, handX |-> At(landmarks, 9).x]
    ELSE [threw |-> FALSE, called |-> TRUE,
          openness |-> Whole(0), handX |-> Undefined]

\* onResults: whether it threw, whether the gesture callback was invoked, and
\* the arguments it was invoked with.  results.present: the field
\* multiHandLandmarks exists.
onResults(results) ==
    IF results.present /\ Len(results.multiHandLandmarks) > 0
    THEN LET landmarks == results.multiHandLandmarks[1]
             openness == calculateHandOpenness(landmarks)
         IN  IF openness.threw
             THEN [threw |-> TRUE, called |-> FALSE,
                   openness |-> Undefined, handX |-> Undefined]
             ELSE [threw |-> FALSE, called |-> TRUE,
                   openness |-> openness.value, handX |-> At(landmarks, 9).x]
    ELSE [threw |-> FALSE, called |-> FALSE,
          openness |-> Undefined, handX |-> Undefined]

\* detectLoop up to its await, in chain i: a frame is sent when the tracker
\* is ready and the video has data (videoReady: videoElement.readyState >= 2),
\* else the next call is requested at once
detectLoop(ht, i, videoReady) ==
    IF ht.isReady /\ videoReady THEN [ht EXCEPT !.loops[i] = "sending"]
    ELSE [ht EXCEPT !.loops[i] = "scheduled"]

\* a loop whose rejected frame ends it
afterSendUncaught(ht, i, failed) ==
    [ht EXCEPT !.loops[i] = IF failed THEN "off" ELSE "scheduled"]

\* detectLoop from the await on, in chain i: a rejection is caught and
\* logged, and the next call is requested either way
afterSend(ht, i, failed) == [ht EXCEPT !.loops[i] = "scheduled"]

\* a call of detectLoop from outside the loop begins a chain
begun(ht, videoReady) ==
    detectLoop([ht EXCEPT !.loops = Append(ht.loops, "scheduled")],
               Len(ht.loops) + 1, videoReady)

\* start after the camera stream was obtained (lines 71-76)
started(ht, videoReady) == begun([ht EXCEPT !.isReady = TRUE], videoReady)

(***************************************************************************)
(* main.js                                                                 *)
(***************************************************************************)

\* onGesture: the openness is mapped to [0.1, 4.0] and the hand position to
\* an angle, (handX - 0.5) * Math.PI * 3, here in multiples of Math.PI
onGesture(ps, openness, handX) ==
    LET minScale == Num(1, 10)
        maxScale == Whole(4)
        scale == Add(minScale, Mul(openness, Sub(maxScale, minScale)))
        scaled == setExpansion(ps, scale)
    IN  IF handX # Undefined
        THEN setRotation(scaled, Mul(Sub(handX, Half), Whole(3)))
        ELSE scaled

\* initApp of the second revision: a HandTracker is constructed, isReady is
\* set by hand and detectLoop is called
initApp(ht, videoReady) == begun([ht EXCEPT !.isReady = TRUE], videoReady)

\* a click handler that leaves the button as it is
clickedStaysEnabled(btn) == btn

\* the click handler of the start button up to its await: the button is
\* disabled
clicked(btn) == [btn EXCEPT !.disabled = TRUE]

\* the click handler after the camera was obtained: the button is hidden
hidden(btn) == [btn EXCEPT !.display = "none"]

\* the click handler after a failure: the button is enabled again, in red
reenabled(btn) == [btn EXCEPT !.disabled = FALSE, !.backgroundColor = "#ff4444"]

\* a click reaches the handler of a button that is shown and not disabled
clickable(btn) == ~btn.disabled /\ btn.display # "none"

(***************************************************************************)
(* Inputs.                                                                 *)
(***************************************************************************)
ExpansionInputs == {Num(1, 10), Whole(2), Whole(4)}
RotationInputs == {Num(-3, 2), Half}

\* a landmark, coordinates in hundredths
Point(x, y, z) == [x |-> Num(x, 100), y |-> Num(y, 100), z |-> Num(z, 100)]
Offset(p, q) == [x |-> Add(p.x, q.x), y |-> Add(p.y, q.y), z |-> Add(p.z, q.z)]

\* a landmark array of n entries: the wrist, the fingertips at wrist + tipOff,
\* every other landmark at wrist + mcpOff
Hand(n, wrist, mcpOff, tipOff) ==
    [j \in 1..n |->
        IF j = 1 THEN wrist
        ELSE IF \E m \in 1..Len(tips) : tips[m] = j - 1 THEN Offset(wrist, tipOff)
        ELSE Offset(wrist, mcpOff)]

CandidateLandmarks ==
    { Hand(21, Point(50, 50, 0), Point(0, -20, 0), Point(0, -16, 0)),   \* ratio 0.8
      Hand(21, Point(50, 50, 0), Point(0, -20, 0), Point(0, -10, 0)),   \* ratio 0.5
      Hand(21, Point(70, 50, 0), Point(0, -20, 0), Point(0, -44, 0)),   \* ratio 2.2
      Hand(21, Point(30, 60, 0), Point(0, 0, -20), Point(0, -60, 0)),   \* ratio 3
      Hand(21, Point(50, 50, 0), Point(12, -16, 0), Point(18, -24, 0)), \* ratio 1.5
      Hand(21, Point(50, 50, 0), Point(0, 0, 0), Point(0, -10, 0)),     \* palmSize 0
      Hand(21, Point(50, 50, 0), Point(0, 0, 0), Point(0, 0, 0)),       \* one point
      Hand(9, Point(50, 50, 0), Point(0, -20, 0), Point(0, -44, 0)),
      Hand(0, Point(50, 50, 0), Point(0, -20, 0), Point(0, -44, 0)),
      Hand(12, Point(50, 50, 0), Point(0, -20, 0), Point(0, -44, 0)) }

\* the square of the distance of two landmarks has an exact root
ExactDistance(p, q) ==
    LET sq == Add(Add(Square(Sub(p.x, q.x)), Square(Sub(p.y, q.y))),
                  Square(Sub(p.z, q.z)))
    IN  IsSquare(sq.n) /\ IsSquare(sq.d)

LandmarkInputs ==
    { lm \in CandidateLandmarks :
        \A j \in 1..Len(lm) : ExactDistance(lm[j], lm[1]) }

\* what a detection frame delivers to onResults
ResultInputs ==
    {[present |-> FALSE, multiHandLandmarks |-> <<>>],
     [present |-> TRUE, multiHandLandmarks |-> <<>>]}
    \cup {[present |-> TRUE, multiHandLandmarks |-> <<lm>>] : lm \in LandmarkInputs}

\* onResults on every input, tabulated
Delivered == [results \in ResultInputs |-> onResults(results)]

(***************************************************************************)
(* Actions.                                                                *)
(***************************************************************************)
\* lastOp: the handler, its number and name arguments, whether the gesture
\* callback was invoked, whether an exception was raised, and the landmark
\* array of a detection frame
Op(name, num, str, called, threw) ==
    [op |-> name, num |-> num, name |-> str, called |-> called, threw |-> threw,
     landmarks |-> <<>>]

Init ==
    /\ \E seed \in Seeds :
        /\ particleSystem = init(constructed, seed)
        /\ genSeed = seed + 3 * particleCount
    /\ genPattern = constructed.currentPattern
    /\ handTracker = [isReady |-> FALSE, loops |-> <<>>]
    /\ startBtn = [disabled |-> FALSE, display |-> "block", backgroundColor |-> ""]
    /\ pending = 0
    /\ steps = 0
    /\ calls = 0
    /\ lastOp = Op("constructor", Undefined, "", FALSE, FALSE)
    /\ expansionAtSet = constructed.expansion
    /\ stepsSinceSet = 1
    /\ frameFailed = FALSE

\* the display callback: one frame of animate
Animate ==
    /\ particleSystem.animateRequested
    /\ steps < MaxSteps
    /\ particleSystem' = animate(fired(particleSystem))
    /\ steps' = steps + 1
    /\ stepsSinceSet' = stepsSinceSet + 1
    /\ lastOp' = Op("animate", Undefined, "", FALSE, FALSE)
    /\ UNCHANGED <<handTracker, startBtn, pending, calls, genPattern, genSeed,
                   expansionAtSet, frameFailed>>

\* the display callback, the renderer raising at the end of the frame
AnimateRaises ==
    /\ particleSystem.animateRequested
    /\ steps < MaxSteps
    /\ particleSystem' = animateRaised(fired(particleSystem))
    /\ steps' = steps + 1
    /\ stepsSinceSet' = stepsSinceSet + 1
    /\ lastOp' = Op("animate", Undefined, "", FALSE, TRUE)
    /\ UNCHANGED <<handTracker, startBtn, pending, calls, genPattern, genSeed,
                   expansionAtSet, frameFailed>>

\* setPattern, called by the click handler of a pattern button (setupUI)
SetPattern ==
    /\ calls < MaxCalls
    /\ \E patternName \in PatternNames \cup OtherNames, seed \in Seeds :
        /\ particleSystem' = setPattern(particleSystem, patternName, seed)
        /\ genPattern' = patternName
        /\ genSeed' = seed
        /\ lastOp' = Op("setPattern", Undefined, patternName, FALSE, FALSE)
    /\ calls' = calls + 1
    /\ UNCHANGED <<handTracker, startBtn, pending, steps, expansionAtSet, stepsSinceSet,
                   frameFailed>>

\* setColor, called by the input handler of the color picker (setupUI)
SetColor ==
    /\ calls < MaxCalls
    /\ \E hexColor \in Colors :
        /\ particleSystem' = setColor(particleSystem, hexColor)
        /\ lastOp' = Op("setColor", Undefined, hexColor, FALSE, FALSE)
    /\ calls' = calls + 1
    /\ UNCHANGED <<handTracker, startBtn, pending, steps, genPattern, genSeed,
                   expansionAtSet, stepsSinceSet, frameFailed>>

\* setExpansion, called directly
SetExpansion ==
    /\ calls < MaxCalls
    /\ \E factor \in ExpansionInputs :
        /\ particleSystem' = setExpansion(particleSystem, factor)
        /\ lastOp' = Op("setExpansion", factor, "", FALSE, FALSE)
    /\ expansionAtSet' = particleSystem.expansion
    /\ stepsSinceSet' = 0
    /\ calls' = calls + 1
    /\ UNCHANGED <<handTracker, startBtn, pending, steps, genPattern, genSeed, frameFailed>>

\* setRotation, called directly
SetRotation ==
    /\ calls < MaxCalls
    /\ \E angle \in RotationInputs :
        /\ particleSystem' = setRotation(particleSystem, angle)
        /\ lastOp' = Op("setRotation", angle, "", FALSE, FALSE)
    /\ calls' = calls + 1
    /\ UNCHANGED <<handTracker, startBtn, pending, steps, genPattern, genSeed,
                   expansionAtSet, stepsSinceSet, frameFailed>>

\* The two revisions of main.js differ in who obtains the camera (start of
\* the HandTracker constructed at load; the click handler itself, with the
\* HandTracker constructed by initApp afterwards) and agree on the button.

\* the click handler of the start button up to its await: the button is
\* disabled and the camera is requested
ClickStart ==
    /\ clickable(startBtn)
    /\ pending < MaxStarts
    /\ startBtn' = clicked(startBtn)
    /\ pending' = pending + 1
    /\ lastOp' = Op("clickStart", Undefined, "", FALSE, FALSE)
    /\ UNCHANGED <<particleSystem, handTracker, steps, calls, genPattern, genSeed,
                   expansionAtSet, stepsSinceSet, frameFailed>>

\* first revision: start obtains the stream, isReady is set, detectLoop is
\* entered and the button is hidden
StartSucceeds ==
    /\ pending > 0
    /\ \E videoReady \in BOOLEAN : handTracker' = started(handTracker, videoReady)
    /\ startBtn' = hidden(startBtn)
    /\ pending' = pending - 1
    /\ lastOp' = Op("start", Undefined, "resolved", FALSE, FALSE)
    /\ UNCHANGED <<particleSystem, steps, calls, genPattern, genSeed,
                   expansionAtSet, stepsSinceSet, frameFailed>>

\* second revision: the click handler obtains the stream, hides the button
\* and calls initApp
CameraSucceeds ==
    /\ pending > 0
    /\ \E videoReady \in BOOLEAN : handTracker' = initApp(handTracker, videoReady)
    /\ startBtn' = hidden(startBtn)
    /\ pending' = pending - 1
    /\ lastOp' = Op("initApp", Undefined, "resolved", FALSE, FALSE)
    /\ UNCHANGED <<particleSystem, steps, calls, genPattern, genSeed,
                   expansionAtSet, stepsSinceSet, frameFailed>>

\* second revision: the stream is obtained and the button hidden, and the
\* constructor of HandTracker raises in initApp: no loop is begun, and the
\* catch enables the hidden button
InitAppFails ==
    /\ pending > 0
    /\ startBtn' = reenabled(hidden(startBtn))
    /\ pending' = pending - 1
    /\ lastOp' = Op("initApp", Undefined, "rejected", FALSE, TRUE)
    /\ UNCHANGED <<particleSystem, handTracker, steps, calls, genPattern, genSeed,
                   expansionAtSet, stepsSinceSet, frameFailed>>

\* the camera is not obtained (no camera API, permission denied, no device):
\* the button is enabled again
StartFails ==
    /\ pending > 0
    /\ startBtn' = reenabled(startBtn)
    /\ pending' = pending - 1
    /\ lastOp' = Op("start", Undefined, "rejected", FALSE, TRUE)
    /\ UNCHANGED <<particleSystem, handTracker, steps, calls, genPattern, genSeed,
                   expansionAtSet, stepsSinceSet, frameFailed>>

\* the requestAnimationFrame callback of detectLoop, in one of the chains
DetectLoop ==
    /\ \E i \in 1..Len(handTracker.loops), videoReady \in BOOLEAN :
        /\ handTracker.loops[i] = "scheduled"
        /\ handTracker' = detectLoop(handTracker, i, videoReady)
    /\ lastOp' = Op("detectLoop", Undefined, "", FALSE, FALSE)
    /\ UNCHANGED <<particleSystem, startBtn, pending, steps, calls, genPattern,
                   genSeed, expansionAtSet, stepsSinceSet, frameFailed>>

\* hands.send delivers its results to onResults, which may invoke onGesture;
\* an exception of onResults rejects the send; detectLoop goes on
Frame ==
    /\ \E i \in 1..Len(handTracker.loops), results \in ResultInputs :
        LET r == Delivered[results]
        IN  /\ handTracker.loops[i] = "sending"
            /\ r.called => calls < MaxCalls
            /\ particleSystem' = IF r.called
                                 THEN onGesture(particleSystem, r.openness, r.handX)
                                 ELSE particleSystem
            /\ handTracker' = afterSend(handTracker, i, r.threw)
            /\ frameFailed' = (frameFailed \/ r.threw)
            /\ expansionAtSet' = IF r.called THEN particleSystem.expansion
                                 ELSE expansionAtSet
            /\ stepsSinceSet' = IF r.called THEN 0 ELSE stepsSinceSet
            /\ calls' = IF r.called THEN calls + 1 ELSE calls
            /\ lastOp' = IF results.present /\ Len(results.multiHandLandmarks) > 0
                         THEN [Op("frameHand", r.openness, "present", r.called,
                                  r.threw)
                               EXCEPT !.landmarks = results.multiHandLandmarks[1]]
                         ELSE Op("frameNoHand", r.openness,
                                 IF results.present THEN "present" ELSE "missing",
                                 r.called, r.threw)
    /\ UNCHANGED <<startBtn, pending, steps, genPattern, genSeed>>

\* hands.send throws or rejects without delivering results
SendFails ==
    /\ \E i \in 1..Len(handTracker.loops) :
        /\ handTracker.loops[i] = "sending"
        /\ handTracker' = afterSend(handTracker, i, TRUE)
    /\ frameFailed' = TRUE
    /\ lastOp' = Op("sendFailed", Undefined, "", FALSE, TRUE)
    /\ UNCHANGED <<particleSystem, startBtn, pending, steps, calls, genPattern,
                   genSeed, expansionAtSet, stepsSinceSet>>

\* the page: the display callback, the controls of setupUI (pattern buttons,
\* color picker), the start button, the detection loop and the gestures it
\* delivers to onGesture; the fullscreen button of setupUI acts on the
\* document only and leaves every variable as it is
Next ==
    \/ Animate
    \/ AnimateRaises
    \/ SetPattern
    \/ SetColor
    \/ ClickStart
    \/ StartSucceeds
    \/ CameraSucceeds
    \/ InitAppFails
    \/ StartFails
    \/ DetectLoop
    \/ Frame
    \/ SendFails

Spec == Init /\ [][Next]_vars

\* the ParticleSystem object driven through its public methods: the controls
\* of setupUI (pattern buttons, color picker), direct calls of setExpansion
\* and setRotation, and the display callback
FieldNext ==
    \/ Animate
    \/ SetPattern
    \/ SetColor
    \/ SetExpansion
    \/ SetRotation

FieldSpec == Init /\ [][FieldNext]_vars

(***************************************************************************)
(* Properties.                                                             *)
(***************************************************************************)
RECURSIVE Pow(_, _)
Pow(b, k) == IF k = 0 THEN 1 ELSE b * Pow(b, k - 1)

\* the coordinate of a target on an axis (0, 1, 2)
Coordinate(target, axis) ==
    CASE axis = 0 -> target.x [] axis = 1 -> target.y [] axis = 2 -> target.z

\* the targets of the latest generation, entry by entry
LatestGeneration == [i \in 1..particleCount |-> targetOf(genPattern, genSeed, i - 1)]

\* C1: every animate frame reads a target array of exactly particleCount
\* entries, each the entry the latest generation (the constructor's or the
\* latest setPattern's) produced for that particle, and moves every coordinate
\* toward that entry; no frame sees an empty, partial or mixed array.
C1_StepReadsLatestGeneration ==
    [][lastOp'.op = "animate" =>
        /\ Len(particleSystem.originalPositions) = particleCount
        /\ particleSystem.currentPattern = genPattern
        /\ \A i \in 1..particleCount :
            /\ particleSystem.originalPositions[i] = LatestGeneration[i]
            /\ \A axis \in 0..2 :
                particleSystem'.positions[3 * (i - 1) + axis + 1] =
                    Add(particleSystem.positions[3 * (i - 1) + axis + 1],
                        Mul(Sub(Mul(Coordinate(LatestGeneration[i], axis),
                                    particleSystem'.expansion),
                                particleSystem.positions[3 * (i - 1) + axis + 1]),
                            Tenth))]_vars

\* a frame ran right after two control calls, the latest regeneration being a
\* setPattern to the heart
C1_Witness ==
    /\ lastOp.op = "animate"
    /\ calls = 2
    /\ genPattern = "heart"
    /\ genSeed \in Seeds
    /\ particleSystem.originalPositions = LatestGeneration
    /\ steps = 1

\* C2: setExpansion(x) assigns exactly x to targetExpansion and leaves the
\* current expansion, both rotation values, the pattern, the targets and the
\* positions as they were.
C2_SetExpansionSetsOnlyTarget ==
    [][lastOp'.op = "setExpansion" =>
        /\ particleSystem'.targetExpansion = lastOp'.num
        /\ particleSystem'.expansion = particleSystem.expansion
        /\ particleSystem'.rotationY = particleSystem.rotationY
        /\ particleSystem'.targetRotationY = particleSystem.targetRotationY
        /\ particleSystem'.currentPattern = particleSystem.currentPattern
        /\ particleSystem'.originalPositions = particleSystem.originalPositions
        /\ particleSystem'.positions = particleSystem.positions]_vars

\* setExpansion(2) was just called on a field whose expansion is still 1
C2_Witness ==
    /\ lastOp.op = "setExpansion"
    /\ lastOp.num = Whole(2)
    /\ particleSystem.targetExpansion = Whole(2)
    /\ particleSystem.expansion = Whole(1)
    /\ steps > 0

\* C3: k frames after targetExpansion was assigned, the gap to the target is
\* the gap at the assignment times 0.9^k: every frame closes exactly 10% of
\* what remains, so the gap shrinks geometrically toward 0.
C3_GapShrinksGeometrically ==
    Mul(Sub(particleSystem.targetExpansion, particleSystem.expansion),
        Whole(Pow(10, stepsSinceSet)))
    = Mul(Sub(particleSystem.targetExpansion, expansionAtSet),
          Whole(Pow(9, stepsSinceSet)))

\* three frames after setExpansion(2) on an expansion of 1: the gap is 0.729
C3_Witness ==
    /\ stepsSinceSet = 3
    /\ expansionAtSet = Whole(1)
    /\ particleSystem.targetExpansion = Whole(2)
    /\ particleSystem.expansion = Num(1271, 1000)

\* C4: the animate loop is requested from construction on, whatever the start
\* button and the tracker do, and every frame, with or without a gesture
\* before it, moves expansion, rotation and every position a tenth of the way
\* to the targets last set, which it leaves as they are.
C4_StepsRunWithoutDetection ==
    /\ [](particleSystem.animateRequested /\ particleSystem.particles)
    /\ [][lastOp'.op = "animate" =>
            /\ particleSystem'.expansion =
                   Add(particleSystem.expansion,
                       Mul(Sub(particleSystem.targetExpansion,
                               particleSystem.expansion), Tenth))
            /\ particleSystem'.rotationY =
                   Add(particleSystem.rotationY,
                       Mul(Sub(particleSystem.targetRotationY,
                               particleSystem.rotationY), Tenth))
            /\ \A i \in 1..particleCount, axis \in 0..2 :
                   particleSystem'.positions[3 * (i - 1) + axis + 1] =
                       Add(particleSystem.positions[3 * (i - 1) + axis + 1],
                           Mul(Sub(Mul(Coordinate(particleSystem.originalPositions[i],
                                                  axis),
                                       particleSystem'.expansion),
                                   particleSystem.positions[3 * (i - 1) + axis + 1]),
                               Tenth))
            /\ particleSystem'.targetExpansion = particleSystem.targetExpansion
            /\ particleSystem'.targetRotationY = particleSystem.targetRotationY
            /\ particleSystem'.originalPositions = particleSystem.originalPositions
        ]_vars

\* the camera was never started and no gesture arrived, and MaxSteps frames
\* ran toward the initial targets: expansion 1, rotation 0, the sphere; a
\* coordinate created at -50 with target 0 is at -50 * 0.9^(MaxSteps + 1)
C4_Witness ==
    /\ steps = MaxSteps
    /\ calls = 0
    /\ clickable(startBtn)
    /\ pending = 0
    /\ handTracker = [isReady |-> FALSE, loops |-> <<>>]
    /\ lastOp.op = "animate"
    /\ particleSystem.expansion = Whole(1)
    /\ particleSystem.rotationY = Whole(0)
    /\ particleSystem.currentPattern = "sphere"
    /\ \E j \in 1..(3 * particleCount) :
           particleSystem.positions[j] =
               Mul(Whole(-50), Num(Pow(9, MaxSteps + 1), Pow(10, MaxSteps + 1)))

\* C5: setPattern with a name that is no pattern leaves the active pattern
\* and the targets as they were, and no position ever holds a value that is
\* not a number.
C5_UnknownPatternRejected ==
    /\ [][(lastOp'.op = "setPattern" /\ lastOp'.name \notin PatternNames) =>
            /\ particleSystem'.currentPattern = particleSystem.currentPattern
            /\ particleSystem'.originalPositions = particleSystem.originalPositions
         ]_vars
    /\ [](\A j \in 1..Len(particleSystem.positions) :
              IsFinite(particleSystem.positions[j]))

\* the openness a detection frame passed to the gesture callback is a number
\* of [0, 1]
OpennessInRange(a) == IsFinite(a) /\ LessEq(Whole(0), a) /\ LessEq(a, Whole(1))

\* C6: the openness passed to the gesture callback is a defined value of
\* [0, 1] also when landmarks 0 and 9 coincide, so targetExpansion is never
\* NaN or infinite.
C6_OpennessDefinedForDegeneratePalm ==
    /\ (lastOp.op = "frameHand" /\ lastOp.called) => OpennessInRange(lastOp.num)
    /\ IsFinite(particleSystem.targetExpansion)

\* C7: a frame whose landmark array has fewer than 10 entries raises, passes
\* nothing to the gesture callback and leaves targetExpansion and
\* targetRotationY as they were.
C7_ShortLandmarksFailFast ==
    [][(lastOp'.op = "frameHand" /\ Len(lastOp'.landmarks) < 10) =>
        /\ lastOp'.threw
        /\ ~lastOp'.called
        /\ lastOp'.num = Undefined
        /\ calls' = calls
        /\ particleSystem'.targetExpansion = particleSystem.targetExpansion
        /\ particleSystem'.targetRotationY = particleSystem.targetRotationY]_vars

\* a frame of 9 landmarks raised after a gesture had set the targets
C7_Witness ==
    /\ lastOp.op = "frameHand"
    /\ Len(lastOp.landmarks) = 9
    /\ lastOp.threw
    /\ particleSystem.targetExpansion = Whole(4)
    /\ particleSystem.targetRotationY = Num(3, 5)

\* the sum of the distances of the five fingertips to the wrist
RECURSIVE SumTipDistances(_, _)
SumTipDistances(landmarks, indices) ==
    IF indices = {} THEN Whole(0)
    ELSE LET index == CHOOSE index \in indices : TRUE
         IN  Add(distance(landmarks[index + 1], landmarks[1]),
                 SumTipDistances(landmarks, indices \ {index}))

Ratio(landmarks) ==
    Div(Div(SumTipDistances(landmarks, {4, 8, 12, 16, 20}), Whole(5)),
        distance(landmarks[10], landmarks[1]))

Clamp01(a) ==
    IF Less(a, Whole(0)) THEN Whole(0) ELSE IF Less(Whole(1), a) THEN Whole(1) ELSE a

\* C8: for a full landmark array with palmSize > 0 the openness passed on is
\* (avgTipDist / palmSize - 0.8) / 1.4 clamped to [0, 1]: exactly 0 for a
\* ratio <= 0.8 and exactly 1 for a ratio >= 2.2.
C8_OpennessIsClampedRatio ==
    (/\ lastOp.op = "frameHand"
     /\ Len(lastOp.landmarks) = 21
     /\ Less(Whole(0), distance(lastOp.landmarks[10], lastOp.landmarks[1])))
    => LET ratio == Ratio(lastOp.landmarks)
       IN  /\ lastOp.called
           /\ lastOp.num = Clamp01(Div(Sub(ratio, Num(4, 5)), Num(7, 5)))
           /\ OpennessInRange(lastOp.num)
           /\ LessEq(ratio, Num(4, 5)) => lastOp.num = Whole(0)
           /\ LessEq(Num(11, 5), ratio) => lastOp.num = Whole(1)

\* a half-open hand (ratio 1.5) gave the openness 1/2
C8_Witness ==
    /\ lastOp.op = "frameHand"
    /\ Len(lastOp.landmarks) = 21
    /\ Ratio(lastOp.landmarks) = Num(3, 2)
    /\ lastOp.num = Half
    /\ particleSystem.targetExpansion = Num(41, 20)

\* C9: a detection frame that ends in an exception (hands.send throws or
\* rejects, or onResults raises) changes nothing of the particle system, and
\* detectLoop requests its next call, so the loop is alive after any failure.
C9_FailedFrameIsSkipped ==
    /\ [][lastOp'.threw /\ lastOp'.op \in {"sendFailed", "frameHand", "frameNoHand"} =>
            /\ particleSystem' = particleSystem
            /\ Len(handTracker'.loops) = Len(handTracker.loops)
            /\ \E i \in 1..Len(handTracker.loops) :
                   /\ handTracker.loops[i] = "sending"
                   /\ handTracker'.loops[i] = "scheduled"
            /\ handTracker'.isReady
         ]_vars
    /\ [](frameFailed =>
            /\ handTracker.isReady
            /\ Len(handTracker.loops) > 0
            /\ \A i \in 1..Len(handTracker.loops) :
                   handTracker.loops[i] \in {"scheduled", "sending"})

\* after a failed frame a later frame delivered an open hand to onGesture
C9_Witness ==
    /\ frameFailed
    /\ lastOp.op = "frameHand"
    /\ lastOp.called
    /\ ~lastOp.threw
    /\ lastOp.num = Whole(1)
    /\ particleSystem.targetExpansion = Whole(4)

\* C10: a frame without a hand (multiHandLandmarks missing or empty) does not
\* raise, does not invoke the gesture callback and leaves targetExpansion and
\* targetRotationY as they were.
C10_NoHandIsNormalInput ==
    [][lastOp'.op = "frameNoHand" =>
        /\ ~lastOp'.threw
        /\ ~lastOp'.called
        /\ frameFailed' = frameFailed
        /\ calls' = calls
        /\ particleSystem'.targetExpansion = particleSystem.targetExpansion
        /\ particleSystem'.targetRotationY = particleSystem.targetRotationY]_vars

\* a frame without the multiHandLandmarks field arrived after a gesture had
\* set the targets
C10_Witness ==
    /\ lastOp.op = "frameNoHand"
    /\ lastOp.name = "missing"
    /\ particleSystem.targetExpansion = Num(41, 20)
    /\ particleSystem.targetRotationY = Num(9, 25)

\* C11: setColor changes the color and nothing else: the positions, the
\* targets, the active pattern, the expansion and its target, the rotation
\* and its target and the particle count are after the call what they were
\* before it.
C11_SetColorChangesOnlyColor ==
    [][lastOp'.op = "setColor" =>
        /\ particleSystem'.baseColor = lastOp'.name
        /\ particleSystem' = [particleSystem EXCEPT !.baseColor = lastOp'.name]
        /\ particleSystem'.positions = particleSystem.positions
        /\ particleSystem'.originalPositions = particleSystem.originalPositions
        /\ particleSystem'.currentPattern = particleSystem.currentPattern
        /\ particleSystem'.expansion = particleSystem.expansion
        /\ particleSystem'.targetExpansion = particleSystem.targetExpansion
        /\ particleSystem'.rotationY = particleSystem.rotationY
        /\ particleSystem'.targetRotationY = particleSystem.targetRotationY]_vars

\* the color was set to magenta on a field that had moved from where it was
\* created, while the expansion was under way to 4
C11_Witness ==
    /\ lastOp.op = "setColor"
    /\ particleSystem.baseColor = "#ff00ff"
    /\ steps > 0
    /\ particleSystem.targetExpansion = Whole(4)
    /\ particleSystem.expansion # Whole(1)
    /\ particleSystem.expansion # Whole(4)

\* C12: after construction and any sequence of setPattern, setColor,
\* setExpansion, setRotation and animate frames, particleCount is the value
\* the constructor set, the position buffer holds 3 * particleCount entries
\* and originalPositions holds exactly particleCount entries, one per
\* particle, each with its three coordinates.
C12_CountsAreFixed ==
    /\ particleSystem.particleCount = constructed.particleCount
    /\ Len(particleSystem.positions) = 3 * particleSystem.particleCount
    /\ Len(particleSystem.originalPositions) = particleSystem.particleCount
    /\ \A i \in 1..particleSystem.particleCount :
           DOMAIN particleSystem.originalPositions[i] = {"x", "y", "z"}

\* the pattern was switched twice, last to the cube, and frames ran before and
\* after
C12_Witness ==
    /\ calls = 2
    /\ lastOp.op = "animate"
    /\ steps >= 2
    /\ particleSystem.currentPattern = "cube"
    /\ Len(particleSystem.originalPositions) = particleCount
    /\ \A i \in 1..particleCount :
           \A axis \in 0..2 :
               LessEq(Whole(-6), Coordinate(particleSystem.originalPositions[i], axis))
               /\ LessEq(Coordinate(particleSystem.originalPositions[i], axis), Whole(6))

\* the absolute value of a number
Magnitude(a) == IF Less(a, Whole(0)) THEN Neg(a) ELSE ToNumber(a)

\* the expansion targets onGesture sets for the openness 0 and the openness 1
FistTarget == Num(1, 10)
OpenTarget == Whole(4)

\* the distance of coordinate j of the position buffer to its target
\* coordinate times targetExpansion
Distance(ps, j) ==
    Sub(ps.positions[j],
        Mul(Coordinate(ps.originalPositions[((j - 1) \div 3) + 1], (j - 1) % 3),
            ps.targetExpansion))

\* a bound of that distance: the distance itself plus 1.8 times what the
\* target coordinate still gains or loses while the expansion closes its gap
Remaining(ps, j) ==
    Add(Magnitude(Distance(ps, j)),
        Mul(Num(9, 5),
            Magnitude(Mul(Coordinate(ps.originalPositions[((j - 1) \div 3) + 1],
                                   (j - 1) % 3),
                        Sub(ps.targetExpansion, ps.expansion)))))

\* C13: a gesture of openness 0 sets the expansion target 0.1 and a gesture
\* of openness 1 sets 4.0, and while that target stands every coordinate of
\* every particle comes within any epsilon of its target coordinate times
\* that target: each frame takes at least 5% off a bound of the distance
\* (the distance after k frames is at most 0.95^k times the bound at the
\* gesture).
C13_GestureConverges ==
    /\ [][(lastOp'.op = "frameHand" /\ lastOp'.called) =>
            /\ lastOp'.num = Whole(0) => particleSystem'.targetExpansion = FistTarget
            /\ lastOp'.num = Whole(1) => particleSystem'.targetExpansion = OpenTarget
            /\ particleSystem'.targetExpansion =
                   Add(Num(1, 10), Mul(lastOp'.num, Num(39, 10)))]_vars
    /\ [][(/\ lastOp'.op = "animate"
            /\ particleSystem.targetExpansion \in {FistTarget, OpenTarget}) =>
            \A j \in 1..Len(particleSystem.positions) :
                /\ LessEq(Magnitude(Distance(particleSystem', j)),
                          Remaining(particleSystem', j))
                /\ LessEq(Mul(Whole(20), Remaining(particleSystem', j)),
                          Mul(Whole(19), Remaining(particleSystem, j)))]_vars

\* C14: the targets change through the setters only: an animate frame leaves
\* targetExpansion, targetRotationY, the active pattern and the targets as
\* they were; targetExpansion changes in setExpansion only, targetRotationY
\* in setRotation only, the pattern and the targets in setPattern only; and
\* setRotation(a) stores exactly a, also an angle beyond a half turn.
C14_TargetsChangeBySettersOnly ==
    [][/\ lastOp'.op = "animate" =>
            /\ particleSystem'.targetExpansion = particleSystem.targetExpansion
            /\ particleSystem'.targetRotationY = particleSystem.targetRotationY
            /\ particleSystem'.currentPattern = particleSystem.currentPattern
            /\ particleSystem'.originalPositions = particleSystem.originalPositions
       /\ particleSystem'.targetExpansion # particleSystem.targetExpansion
            => lastOp'.op = "setExpansion"
       /\ particleSystem'.targetRotationY # particleSystem.targetRotationY
            => lastOp'.op = "setRotation"
       /\ (\/ particleSystem'.currentPattern # particleSystem.currentPattern
           \/ particleSystem'.originalPositions # particleSystem.originalPositions)
            => lastOp'.op = "setPattern"
       /\ lastOp'.op = "setRotation" =>
            /\ particleSystem'.targetRotationY = lastOp'.num
            /\ particleSystem'.rotationY = particleSystem.rotationY
      ]_vars

\* setRotation(-1.5 * Math.PI) was just called on a field that had run frames:
\* the target is -1.5 * Math.PI, not 0.5 * Math.PI
C14_Witness ==
    /\ lastOp.op = "setRotation"
    /\ lastOp.num = Num(-3, 2)
    /\ particleSystem.targetRotationY = Num(-3, 2)
    /\ Less(particleSystem.targetRotationY, Whole(-1))
    /\ steps > 0

\* rotation values a second field may hold in place of those of the state
RotationVariants == {Num(-3, 2), Whole(3)}

\* C15: the rotation does not reach the positions.  A field that differs from
\* the field of the state in rotationY and targetRotationY only is, after a
\* frame, again a field that differs from the field of the state after its
\* frame in rotationY and targetRotationY only: same position buffer, same
\* expansion, same targets, and so after any number of frames the two run
\* alike.  A frame moves rotationY by a tenth of its gap to targetRotationY.
C15_RotationDoesNotReachPositions ==
    steps < MaxSteps =>
        /\ \A r \in RotationVariants, target \in RotationVariants :
               LET other == [particleSystem EXCEPT !.rotationY = r,
                                                   !.targetRotationY = target]
                   here == animate(particleSystem)
                   there == animate(other)
               IN  /\ there.positions = here.positions
                   /\ there = [here EXCEPT
                                   !.rotationY = Add(r, Mul(Sub(target, r), Tenth)),
                                   !.targetRotationY = target]
        /\ animate(particleSystem).rotationY =
               Add(particleSystem.rotationY,
                   Mul(Sub(particleSystem.targetRotationY, particleSystem.rotationY),
                       Tenth))

\* a field whose rotation is under way to -1.5 * Math.PI, its positions
\* moving, with frames still to run
C15_Witness ==
    /\ particleSystem.targetRotationY = Num(-3, 2)
    /\ particleSystem.rotationY = Num(-3, 20)
    /\ steps < MaxSteps
    /\ animate(particleSystem).positions # particleSystem.positions
    /\ animate(particleSystem).rotationY = Num(-57, 200)

\* C16: within a frame the expansion is smoothed first and the particles then
\* move with the smoothed value: for every particle and each of its three
\* coordinates, new = old + (target coordinate * expansion after the
\* smoothing - old) * 0.1, the one scalar on x, y and z.
C16_PositionsUseSmoothedExpansion ==
    [][lastOp'.op = "animate" =>
        LET smoothed == Add(particleSystem.expansion,
                            Mul(Sub(particleSystem.targetExpansion,
                                    particleSystem.expansion), Tenth))
        IN  /\ particleSystem'.expansion = smoothed
            /\ \A i \in 1..particleSystem.particleCount :
                   LET target == particleSystem.originalPositions[i]
                       at(axis) == particleSystem.positions[3 * (i - 1) + axis + 1]
                       after(axis) == particleSystem'.positions[3 * (i - 1) + axis + 1]
                   IN  /\ after(0) = Add(at(0), Mul(Sub(Mul(target.x, smoothed), at(0)),
                                                     Tenth))
                       /\ after(1) = Add(at(1), Mul(Sub(Mul(target.y, smoothed), at(1)),
                                                     Tenth))
                       /\ after(2) = Add(at(2), Mul(Sub(Mul(target.z, smoothed), at(2)),
                                                     Tenth))]_vars

\* a frame ran while the expansion was under way to 4 on a cube with a
\* target on a face
C16_Witness ==
    /\ lastOp.op = "animate"
    /\ particleSystem.currentPattern = "cube"
    /\ particleSystem.targetExpansion = Whole(4)
    /\ particleSystem.expansion = Num(13, 10)
    /\ \E i \in 1..particleCount, axis \in 0..2 :
           Coordinate(particleSystem.originalPositions[i], axis) = Whole(-6)

\* C17: the animate loop never ends.  Every frame requests the next one as
\* its first statement, so a request is pending after every frame, also
\* after a frame in which the renderer raised, and a frame called before the
\* particles exist (the early return) has requested the next one as well.
C17_LoopIsAlwaysRequested ==
    /\ [](particleSystem.animateRequested)
    /\ [][lastOp'.op = "animate" => particleSystem'.animateRequested]_vars
    /\ [](/\ ~constructed.particles
           /\ animate(fired(constructed)) =
                  [constructed EXCEPT !.animateRequested = TRUE])

\* the renderer raised in a frame after the first, and the next frame is
\* requested
C17_Witness ==
    /\ lastOp.op = "animate"
    /\ lastOp.threw
    /\ steps >= 2
    /\ particleSystem.animateRequested

\* x lies between a and b, the ends included
Between(a, x, b) ==
    \/ LessEq(a, x) /\ LessEq(x, b)
    \/ LessEq(b, x) /\ LessEq(x, a)

\* C19: the smoothing does not overshoot.  After every frame the expansion
\* lies between its value before the frame and targetExpansion, the ends
\* included, and a frame that finds the expansion at targetExpansion leaves
\* it exactly there; the same for the rotation and targetRotationY.
C19_SmoothingNeverOvershoots ==
    [][lastOp'.op = "animate" =>
        /\ Between(particleSystem.expansion, particleSystem'.expansion,
                   particleSystem.targetExpansion)
        /\ particleSystem.expansion = particleSystem.targetExpansion
               => particleSystem'.expansion = particleSystem.expansion
        /\ Between(particleSystem.rotationY, particleSystem'.rotationY,
                   particleSystem.targetRotationY)
        /\ particleSystem.rotationY = particleSystem.targetRotationY
               => particleSystem'.rotationY = particleSystem.rotationY]_vars

\* the chains of detectLoop that await hands.send
InFlight == {i \in 1..Len(handTracker.loops) : handTracker.loops[i] = "sending"}

\* C18: whatever the clicks on the start button and the outcomes of the
\* camera request, retries after a failure included, at most one chain of
\* detectLoop is ever begun on the page, so at most one hands.send is in
\* flight, and a frame is sent only when isReady is true: no chain exists
\* before isReady is set.
C18_AtMostOneDetectionLoop ==
    /\ Len(handTracker.loops) <= 1
    /\ Cardinality(InFlight) <= 1
    /\ InFlight # {} => handTracker.isReady
    /\ ~handTracker.isReady => handTracker.loops = <<>>

\* the camera failed at least once (the button is red), a retry succeeded
\* (the button is hidden) and the one loop awaits hands.send
C18_Witness ==
    /\ startBtn.backgroundColor = "#ff4444"
    /\ startBtn.display = "none"
    /\ startBtn.disabled
    /\ handTracker.isReady
    /\ handTracker.loops = <<"sending">>
    /\ pending = 0

====
